---- MODULE Spec2Model ----
(***************************************************************************)
(* Book Advisor chatbot: the chat route (src/app/api/chat/route.ts, POST)  *)
(* and the six tools it dispatches (src/lib/tools.ts).                     *)
(*                                                                         *)
(* Two specifications share the tool functions:                            *)
(*   Spec      - chat requests handled by POST one after the other, the    *)
(*               LLM provider, the book API and the storage backend being  *)
(*               the environment;                                          *)
(*   StoreSpec - concurrent requests reduced to what they share, the two   *)
(*               tables: two callers run addToReadingList and markAsRead,  *)
(*               interleaved at every await of the tool functions.         *)
(***************************************************************************)
EXTENDS Integers, Sequences, FiniteSets, TLC

VARIABLES
    pending,      \* table readingListItem: rows in insertion (addedAt) order
    read,         \* table readBook: rows in insertion order
    tool,         \* per process: the tool function it is awaiting, if any
    pc,           \* per process: where POST stands
    calls,        \* per process: assistantMessage.tool_calls of the first LLM response
    toolResults,  \* per process: the toolResults array of POST
    llmCalls,     \* per process: the fetches to the LLM provider issued by this request
    finalData,    \* per process: the message of the second LLM response
    response,     \* per process: the Response POST returned
    addLog        \* history: per book id, the storage outcomes of addToReadingList
                  \* since the id last had no pending row

vars == <<pending, read, tool, pc, calls, toolResults, llmCalls, finalData, response, addLog>>

orch == <<pc, calls, toolResults, llmCalls, finalData, response>>

(***************************************************************************)
(* Bounds of the model.                                                    *)
(***************************************************************************)
\* tool calls in one LLM response
MaxCalls == 2
\* entries kept per id in the history addLog
MaxLog == 2
\* longest list of items in a response of the book API
MaxItems == 3
\* largest maxResults a caller of searchBooks passes
MaxResultsArg == 2

(***************************************************************************)
(* Values.                                                                 *)
(***************************************************************************)
Procs == {"p1", "p2"}

\* the process whose requests go through POST in Spec
Reqs == {"p1"}

\* JavaScript's undefined, for string-valued arguments; an absent number is {}
\* and a present one {n}
Undefined == "undefined"

\* the volumes the book API knows: getBookDetails can succeed for these only
Catalog == [b1 |-> [title |-> "Fundacion", pageCount |-> 255],
            b2 |-> [title |-> "Yo, Robot", pageCount |-> 253]]

Ids == DOMAIN Catalog

\* getReadingList(limit: number = 20)
DefaultLimit == 20

\* error texts of tools.ts (accents dropped)
ErrSearch == "Error al buscar libros"
ErrDetails == "Error al obtener detalles del libro"
ErrAddUnavailable == "No se pudo agregar el libro. El libro no esta disponible en este momento."
ErrAddDuplicate == "Este libro ya esta en tu lista de lectura"
ErrAddFailed == "Error al agregar libro a la lista. Por favor, intenta de nuevo."
ErrList == "Error al obtener lista de lectura"
ErrMarkUnavailable == "No se pudo marcar el libro como leido. El libro no esta disponible."
ErrMarkDuplicate == "Este libro ya fue marcado como leido anteriormente"
ErrMarkFailed == "Error al marcar libro como leido"
ErrStats == "Error al obtener estadisticas"

\* a tool function's return value: success is "true", "false" or "absent" (the
\* object has no success field), error is "" when the object has no error field,
\* data holds the rows (or the one stats object) returned
Result(success, error, data) == [success |-> success, error |-> error, data |-> data]

NoResult == Result("absent", "", <<>>)

\* bookInfo before it is assigned
NoInfo == [error |-> "", title |-> Undefined, pageCount |-> 0]

\* no tool function in flight. Of a tool function in flight: fn its name, at the
\* await it stands at ("done" once it returned), its arguments, bookInfo (info,
\* fromList when it was read from the pending row), the code of the last storage
\* call ("" before the first, "ok", or the error's code) and the value returned
IdleTool == [fn |-> "none", at |-> "none", bookId |-> Undefined, priority |-> Undefined,
             rating |-> {}, limit |-> {}, fromList |-> FALSE, info |-> NoInfo,
             items |-> <<>>, code |-> "", result |-> NoResult]

(***************************************************************************)
(* The storage backend (Prisma), as the tools use it.                      *)
(***************************************************************************)
\* where: { googleId: id }; Prisma drops a filter whose value is undefined
Matches(row, id) == id = Undefined \/ row.googleId = id

HasRow(table, id) == \E i \in 1..Len(table) : table[i].googleId = id

RowsOf(table, id) == {i \in 1..Len(table) : table[i].googleId = id}

\* the uniqueness constraint on googleId of both tables
UniqueViolation(table, id) == HasRow(table, id)

\* upsert where create belongs: an existing row of the id is replaced
PrismaCreate_Upsert(table, data) ==
    IF data.googleId = Undefined
    THEN [code |-> "validation", table |-> table]
    ELSE [code |-> "ok",
          table |-> Append(SelectSeq(table, LAMBDA row : row.googleId # data.googleId), data)]

\* prisma.<table>.create({data}): the code of the outcome and the table after it.
\* A required field left undefined is refused before the database is reached.
PrismaCreate(table, data) ==
    IF data.googleId = Undefined
    THEN [code |-> "validation", table |-> table]
    ELSE IF UniqueViolation(table, data.googleId)
    THEN [code |-> "P2002", table |-> table]
    ELSE [code |-> "ok", table |-> Append(table, data)]

\* prisma.<table>.findFirst({where: {googleId: id}}): <<row>> or <<>> (null)
PrismaFindFirst(table, id) ==
    LET hits == {i \in 1..Len(table) : Matches(table[i], id)}
    IN IF hits = {} THEN <<>>
       ELSE <<table[CHOOSE i \in hits : \A j \in hits : i <= j]>>

\* deleteMany that deletes nothing
PrismaDeleteMany_None(table, id) == table

\* prisma.<table>.deleteMany({where: {googleId: id}})
PrismaDeleteMany(table, id) == SelectSeq(table, LAMBDA row : ~Matches(row, id))

RECURSIVE Reverse(_)
Reverse(s) == IF s = <<>> THEN <<>> ELSE Append(Reverse(Tail(s)), Head(s))

\* prisma.readingListItem.findMany({take, orderBy: {addedAt: 'desc'}})
PrismaFindManyDesc(table, take) ==
    LET desc == Reverse(table)
    IN SubSeq(desc, 1, IF take < Len(desc) THEN take ELSE Len(desc))

(***************************************************************************)
(* The tool functions of tools.ts, one action per await.                   *)
(***************************************************************************)
Return(p, result) == tool' = [tool EXCEPT ![p].at = "done", ![p].result = result]

\* the same after a storage call that ended with code
ReturnAfter(p, code, result) ==
    tool' = [tool EXCEPT ![p].at = "done", ![p].code = code, ![p].result = result]

\* the code of a storage call that failed for another reason than a constraint
StorageDown == "P1001"

\* getBookDetails, lines 198-208: the details of a volume the API returned
Details(bookId) == [error |-> "", title |-> Catalog[bookId].title,
                    pageCount |-> Catalog[bookId].pageCount]

\* getBookDetails, lines 188-196 and 209-212: the object with an error field, when
\* the status is not ok, the volume has no volumeInfo, or the fetch throws
DetailsError == [error |-> ErrDetails, title |-> Undefined, pageCount |-> 0]

\* what getBookDetails(bookId) can return: the API may fail for any id, and
\* answers with a volume for the ids it knows only
getBookDetails(bookId) ==
    {DetailsError} \cup (IF bookId \in Ids THEN {Details(bookId)} ELSE {})

\* the data object addToReadingList hands to create
PendingData(t) == [googleId |-> t.bookId, title |-> t.info.title,
                   priority |-> IF t.priority \in {Undefined, ""} THEN "medium" ELSE t.priority]

\* a catch block that takes the uniqueness violation for a success
AddCatch_Swallow(code) == IF code = "P2002" THEN Result("true", "", <<>>)
                          ELSE Result("false", ErrAddFailed, <<>>)

\* the catch block of addToReadingList
AddCatch(code) == IF code = "P2002" THEN Result("false", ErrAddDuplicate, <<>>)
                  ELSE Result("false", ErrAddFailed, <<>>)

\* the history of addToReadingList outcomes of id, after one more outcome
Logged(log, id, outcome) ==
    IF Len(log[id]) < MaxLog THEN [log EXCEPT ![id] = Append(@, outcome)] ELSE log

\* AddLookup going on to create whatever getBookDetails returned
AddLookup_IgnoreError(p) ==
    /\ tool[p].fn = "addToReadingList" /\ tool[p].at = "lookup"
    /\ \E bookInfo \in getBookDetails(tool[p].bookId) :
          tool' = [tool EXCEPT ![p].at = "create", ![p].info = bookInfo]
    /\ UNCHANGED <<pending, read, addLog, orch>>

\* addToReadingList, line 218: await getBookDetails(bookId)
AddLookup(p) ==
    /\ tool[p].fn = "addToReadingList" /\ tool[p].at = "lookup"
    /\ \E bookInfo \in getBookDetails(tool[p].bookId) :
          IF bookInfo.error # ""
          THEN tool' = [tool EXCEPT ![p].at = "done", ![p].info = bookInfo,
                                    ![p].result = Result("absent", ErrAddUnavailable, <<>>)]
          ELSE tool' = [tool EXCEPT ![p].at = "create", ![p].info = bookInfo]
    /\ UNCHANGED <<pending, read, addLog, orch>>

\* addToReadingList, lines 228-256: await prisma.readingListItem.create, the
\* return and the catch block
AddCreate(p) ==
    /\ tool[p].fn = "addToReadingList" /\ tool[p].at = "create"
    /\ \E fault \in BOOLEAN :
          LET id == tool[p].bookId
              out == IF fault THEN [code |-> StorageDown, table |-> pending]
                     ELSE PrismaCreate(pending, PendingData(tool[p]))
              result == IF out.code = "ok"
                        THEN Result("true", "", <<PendingData(tool[p])>>)
                        ELSE AddCatch(out.code)
          IN /\ pending' = out.table
             /\ ReturnAfter(p, out.code, result)
             /\ addLog' = IF result.success = "true" THEN Logged(addLog, id, "success")
                          ELSE IF result.error = ErrAddDuplicate
                          THEN Logged(addLog, id, "duplicate")
                          ELSE addLog
    /\ UNCHANGED <<read, orch>>

\* the data object markAsRead hands to create
ReadData(t) == [googleId |-> t.bookId, title |-> t.info.title,
                pageCount |-> t.info.pageCount,
                rating |-> IF t.rating = {0} THEN {} ELSE t.rating]

\* the catch block of markAsRead
MarkCatch(code) == IF code = "P2002" THEN Result("false", ErrMarkDuplicate, <<>>)
                   ELSE Result("false", ErrMarkFailed, <<>>)

\* MarkFind asking the book API whether or not the reading list has the book
MarkFind_AlwaysLookup(p) ==
    /\ tool[p].fn = "markAsRead" /\ tool[p].at = "find"
    /\ \E fault \in BOOLEAN :
          IF fault THEN ReturnAfter(p, StorageDown, MarkCatch(StorageDown))
          ELSE tool' = [tool EXCEPT ![p].at = "lookup", ![p].code = "ok"]
    /\ UNCHANGED <<pending, read, addLog, orch>>

\* markAsRead, lines 280-294: await prisma.readingListItem.findFirst
MarkFind(p) ==
    /\ tool[p].fn = "markAsRead" /\ tool[p].at = "find"
    /\ \E fault \in BOOLEAN :
          LET bookInList == PrismaFindFirst(pending, tool[p].bookId)
          IN IF fault THEN ReturnAfter(p, StorageDown, MarkCatch(StorageDown))
             ELSE IF bookInList # <<>>
             THEN tool' = [tool EXCEPT ![p].at = "create", ![p].fromList = TRUE,
                                       ![p].code = "ok",
                                       ![p].info = [error |-> "",
                                                    title |-> bookInList[1].title,
                                                    pageCount |-> 0]]
             ELSE tool' = [tool EXCEPT ![p].at = "lookup", ![p].code = "ok"]
    /\ UNCHANGED <<pending, read, addLog, orch>>

\* MarkLookup going on to create whatever getBookDetails returned
MarkLookup_IgnoreError(p) ==
    /\ tool[p].fn = "markAsRead" /\ tool[p].at = "lookup"
    /\ \E details \in getBookDetails(tool[p].bookId) :
          tool' = [tool EXCEPT ![p].at = "create", ![p].info = details]
    /\ UNCHANGED <<pending, read, addLog, orch>>

\* markAsRead, lines 298-312: await getBookDetails(bookId)
MarkLookup(p) ==
    /\ tool[p].fn = "markAsRead" /\ tool[p].at = "lookup"
    /\ \E details \in getBookDetails(tool[p].bookId) :
          IF details.error # ""
          THEN tool' = [tool EXCEPT ![p].at = "done", ![p].info = details,
                                    ![p].result = Result("false", ErrMarkUnavailable, <<>>)]
          ELSE tool' = [tool EXCEPT ![p].at = "create", ![p].info = details]
    /\ UNCHANGED <<pending, read, addLog, orch>>

\* MarkCreate deleting the pending row before it creates the read row
MarkCreate_DeleteFirst(p) ==
    /\ tool[p].fn = "markAsRead" /\ tool[p].at = "create"
    /\ \E fault \in BOOLEAN :
          LET out == IF fault THEN [code |-> StorageDown, table |-> read]
                     ELSE PrismaCreate(read, ReadData(tool[p]))
          IN /\ pending' = PrismaDeleteMany(pending, tool[p].bookId)
             /\ read' = out.table
             /\ IF out.code = "ok"
                THEN tool' = [tool EXCEPT ![p].at = "delete", ![p].code = "ok"]
                ELSE ReturnAfter(p, out.code, MarkCatch(out.code))
    /\ UNCHANGED <<addLog, orch>>

\* markAsRead, lines 316-326: await prisma.readBook.create
MarkCreate(p) ==
    /\ tool[p].fn = "markAsRead" /\ tool[p].at = "create"
    /\ \E fault \in BOOLEAN :
          LET out == IF fault THEN [code |-> StorageDown, table |-> read]
                     ELSE PrismaCreate(read, ReadData(tool[p]))
          IN /\ read' = out.table
             /\ IF out.code = "ok"
                THEN tool' = [tool EXCEPT ![p].at = "delete", ![p].code = "ok"]
                ELSE ReturnAfter(p, out.code, MarkCatch(out.code))
    /\ UNCHANGED <<pending, addLog, orch>>

\* MarkDelete without the deleteMany
MarkDelete_Skip(p) ==
    /\ tool[p].fn = "markAsRead" /\ tool[p].at = "delete"
    /\ ReturnAfter(p, "ok", Result("true", "", <<ReadData(tool[p])>>))
    /\ UNCHANGED <<pending, addLog, read, orch>>

\* markAsRead, lines 329-337: await prisma.readingListItem.deleteMany
MarkDelete(p) ==
    /\ tool[p].fn = "markAsRead" /\ tool[p].at = "delete"
    /\ \E fault \in BOOLEAN :
          IF fault
          THEN /\ ReturnAfter(p, StorageDown, MarkCatch(StorageDown))
               /\ UNCHANGED <<pending, addLog>>
          ELSE /\ pending' = PrismaDeleteMany(pending, tool[p].bookId)
               /\ ReturnAfter(p, "ok", Result("true", "", <<ReadData(tool[p])>>))
               /\ addLog' = [addLog EXCEPT ![tool[p].bookId] = <<>>]
    /\ UNCHANGED <<read, orch>>

\* what a call of addToReadingList runs before its first await
StartAdd(bookId, priority) ==
    [IdleTool EXCEPT !.fn = "addToReadingList", !.at = "lookup",
                     !.bookId = bookId, !.priority = priority]

\* what a call of markAsRead runs before its first await
StartMark(bookId, rating) ==
    [IdleTool EXCEPT !.fn = "markAsRead", !.at = "find",
                     !.bookId = bookId, !.rating = rating]

(***************************************************************************)
(* searchBooks. A volume id is a sequence of characters; an item of the    *)
(* volumes response may lack its id or its volumeInfo, and a title that is *)
(* missing or empty is "".                                                 *)
(***************************************************************************)
\* searchBooks(query, maxResults: number = 10)
DefaultMaxResults == 10

\* String.prototype.includes
Includes(s, sub) ==
    \E i \in 0..(Len(s) - Len(sub)) : SubSeq(s, i + 1, i + Len(sub)) = sub

\* Array.prototype.slice(0, end)
Slice(s, end) ==
    LET stop == IF end < 0 THEN (IF Len(s) + end < 0 THEN 0 ELSE Len(s) + end)
                ELSE IF end > Len(s) THEN Len(s) ELSE end
    IN SubSeq(s, 1, stop)

Item(hasId, id, hasVolumeInfo, title) ==
    [hasId |-> hasId, id |-> id, hasVolumeInfo |-> hasVolumeInfo, title |-> title]

\* the items the book API may send
ItemKinds ==
    {Item(TRUE, <<"z", "y", "T", "C">>, TRUE, "Fundacion"),
     Item(TRUE, <<"A", "A", "A", "M", "A", "A">>, TRUE, "Yo, Robot"),
     Item(TRUE, <<"x", "A", "A", "A", "M", "A", "A", "J">>, TRUE, "Nemesis"),
     Item(TRUE, <<"A", "A", "A", "Q", "B", "A", "J", "x">>, TRUE, "Lucky Starr"),
     Item(TRUE, <<"n", "o", "T", "i">>, TRUE, ""),
     Item(TRUE, <<"n", "o", "V", "I">>, FALSE, ""),
     Item(TRUE, <<>>, TRUE, "Sin id"),
     Item(FALSE, <<>>, TRUE, "Id ausente")}

\* data.items of a response: every list of at most MaxItems items
RawLists == UNION {[1..n -> ItemKinds] : n \in 0..MaxItems}

\* the responses a search made for a chat request gets
SampleLists ==
    {<<>>,
     <<Item(TRUE, <<"z", "y", "T", "C">>, TRUE, "Fundacion")>>,
     <<Item(TRUE, <<"z", "y", "T", "C">>, TRUE, "Fundacion"),
       Item(TRUE, <<"x", "A", "A", "A", "M", "A", "A", "J">>, TRUE, "Nemesis")>>}

\* line 162
HasBasicInfo(item) == item.hasVolumeInfo /\ item.title # "" /\ item.hasId /\ item.id # <<>>

\* IsNotProblematicId testing the first pattern only
IsNotProblematicId_FirstOnly(id) ==
    ~Includes(id, <<"A", "A", "A", "M", "A", "A", "J">>)

\* line 163
IsNotProblematicId(id) ==
    /\ ~Includes(id, <<"A", "A", "A", "M", "A", "A", "J">>)
    /\ ~Includes(id, <<"A", "A", "A", "Q", "B", "A", "J">>)

\* lines 155-175, what searchBooks returns for the items of an ok response:
\* item.id.includes throws on an item without id, which the catch block answers
searchBooks(items, maxResults) ==
    IF items = <<>> THEN Result("absent", "", <<>>)
    ELSE IF \E i \in 1..Len(items) : ~items[i].hasId
    THEN Result("absent", ErrSearch, <<>>)
    ELSE LET validBooks == SelectSeq(items, LAMBDA item :
                               HasBasicInfo(item) /\ IsNotProblematicId(item.id))
             kept == Slice(validBooks, maxResults)
         IN Result("absent", "",
                   [i \in 1..Len(kept) |-> [id |-> kept[i].id, title |-> kept[i].title]])

\* searchBooks, lines 146-179: await fetch of the volumes search and of its json
SearchAwait(p, lists) ==
    /\ tool[p].fn = "searchBooks" /\ tool[p].at = "fetch"
    /\ \E ok \in BOOLEAN, items \in lists :
          LET maxResults == IF tool[p].limit = {} THEN DefaultMaxResults
                            ELSE CHOOSE n \in tool[p].limit : TRUE
          IN IF ok
             THEN tool' = [tool EXCEPT ![p].at = "done", ![p].items = items,
                                       ![p].result = searchBooks(items, maxResults)]
             ELSE Return(p, Result("absent", ErrSearch, <<>>))
    /\ UNCHANGED <<pending, read, addLog, orch>>

\* the search of a chat request
SearchFetch(p) == SearchAwait(p, SampleLists)

\* getBookDetails called as a tool, lines 184-212: await fetch of one volume
DetailsFetch(p) ==
    /\ tool[p].fn = "getBookDetails" /\ tool[p].at = "fetch"
    /\ \E details \in getBookDetails(tool[p].bookId) :
          IF details.error # ""
          THEN Return(p, Result("absent", details.error, <<>>))
          ELSE Return(p, Result("absent", "", <<[id |-> tool[p].bookId] @@ details>>))
    /\ UNCHANGED <<pending, read, addLog, orch>>

\* getReadingList(limit), lines 260-273
getReadingList(table, limit) ==
    Result("absent", "",
           PrismaFindManyDesc(table, IF limit = {} THEN DefaultLimit
                                     ELSE CHOOSE n \in limit : TRUE))

ListFind(p) ==
    /\ tool[p].fn = "getReadingList" /\ tool[p].at = "find"
    /\ \E fault \in BOOLEAN :
          IF fault THEN ReturnAfter(p, StorageDown, Result("absent", ErrList, <<>>))
          ELSE ReturnAfter(p, "ok", getReadingList(pending, tool[p].limit))
    /\ UNCHANGED <<pending, read, addLog, orch>>

RECURSIVE SumPages(_)
SumPages(rows) == IF rows = <<>> THEN 0 ELSE Head(rows).pageCount + SumPages(Tail(rows))

\* getReadingStats(period), lines 355-379: period is not read; of the object
\* returned, totalBooksRead and totalPages
getReadingStats(table) ==
    Result("absent", "", <<[totalBooksRead |-> Len(table), totalPages |-> SumPages(table)]>>)

StatsFind(p) ==
    /\ tool[p].fn = "getReadingStats" /\ tool[p].at = "find"
    /\ \E fault \in BOOLEAN :
          IF fault THEN ReturnAfter(p, StorageDown, Result("absent", ErrStats, <<>>))
          ELSE ReturnAfter(p, "ok", getReadingStats(read))
    /\ UNCHANGED <<pending, read, addLog, orch>>

(***************************************************************************)
(* The chat route: POST of route.ts.                                       *)
(***************************************************************************)
ToolNames == {"searchBooks", "getBookDetails", "addToReadingList",
              "getReadingList", "markAsRead", "getReadingStats"}

\* the tool calls an LLM response is made of: {id, function: {name, arguments}},
\* arguments being the raw text the LLM wrote
ToolCallPool ==
    {[id |-> "call_1", name |-> "searchBooks", arguments |-> "{\"query\":\"asimov\"}"],
     [id |-> "call_2", name |-> "getBookDetails", arguments |-> "{\"bookId\":\"b1\"}"],
     [id |-> "call_3", name |-> "addToReadingList", arguments |-> "{\"bookId\":\"b1\"}"],
     [id |-> "call_4", name |-> "addToReadingList",
      arguments |-> "{\"bookId\":\"b1\",\"priority\":\"high\"}"],
     [id |-> "call_5", name |-> "getReadingList", arguments |-> "{}"],
     [id |-> "call_6", name |-> "markAsRead", arguments |-> "{\"bookId\":\"b1\"}"],
     [id |-> "call_7", name |-> "getReadingStats", arguments |-> "{}"],
     [id |-> "call_8", name |-> "deleteBook", arguments |-> "{\"bookId\":\"b1\"}"],
     [id |-> "call_9", name |-> "addToReadingList", arguments |-> "{\"bookId\":"],
     [id |-> "call_10", name |-> "deleteBook", arguments |-> "{\"bookId\":"],
     [id |-> "call_11", name |-> "markAsRead", arguments |-> "null"],
     [id |-> "call_12", name |-> "getReadingList", arguments |-> "5"],
     [id |-> "call_13", name |-> "addToReadingList",
      arguments |-> "{\"bookId\":\"b1\",\"priority\":\"urgent\"}"]}

\* assistantMessage.tool_calls: up to MaxCalls tool calls
CallLists == UNION {[1..n -> ToolCallPool] : n \in 0..MaxCalls}

\* the tool calls of the second response: none, or one that would write
FinalCallLists == {tcs \in CallLists : Len(tcs) <= 1 /\ \A i \in 1..Len(tcs) : tcs[i].id = "call_3"}

\* an argument object with no property set
NoArgs == [type |-> "object", query |-> Undefined, maxResults |-> {}, bookId |-> Undefined,
           priority |-> Undefined, rating |-> {}, limit |-> {}, period |-> Undefined]

\* JSON.parse of the raw argument texts: the value, or a SyntaxError thrown
JSONParse(raw) ==
    CASE raw = "{\"query\":\"asimov\"}" -> [thrown |-> FALSE, value |-> [NoArgs EXCEPT !.query = "asimov"]]
      [] raw = "{\"bookId\":\"b1\"}" -> [thrown |-> FALSE, value |-> [NoArgs EXCEPT !.bookId = "b1"]]
      [] raw = "{\"bookId\":\"b1\",\"priority\":\"high\"}" ->
             [thrown |-> FALSE, value |-> [NoArgs EXCEPT !.bookId = "b1", !.priority = "high"]]
      [] raw = "{\"bookId\":\"b1\",\"priority\":\"urgent\"}" ->
             [thrown |-> FALSE, value |-> [NoArgs EXCEPT !.bookId = "b1", !.priority = "urgent"]]
      [] raw = "{}" -> [thrown |-> FALSE, value |-> NoArgs]
      [] raw = "null" -> [thrown |-> FALSE, value |-> [NoArgs EXCEPT !.type = "null"]]
      [] raw = "5" -> [thrown |-> FALSE, value |-> [NoArgs EXCEPT !.type = "number"]]
      [] OTHER -> [thrown |-> TRUE, value |-> NoArgs]

\* reading a property of args throws a TypeError when args is null; every case of
\* the switch but the default reads one
ReadsArgs(functionName) == functionName \in ToolNames

\* the catch block inside the loop, line 156
ErrExec(functionName) ==
    CASE functionName = "searchBooks" -> "Error al ejecutar searchBooks"
      [] functionName = "getBookDetails" -> "Error al ejecutar getBookDetails"
      [] functionName = "addToReadingList" -> "Error al ejecutar addToReadingList"
      [] functionName = "getReadingList" -> "Error al ejecutar getReadingList"
      [] functionName = "markAsRead" -> "Error al ejecutar markAsRead"
      [] functionName = "getReadingStats" -> "Error al ejecutar getReadingStats"
      [] OTHER -> "Error al ejecutar"

ErrNoTool == "Herramienta no encontrada"

\* the switch, lines 130-148: the tool function called, up to its first await
StartTool(functionName, args) ==
    CASE functionName = "searchBooks" ->
             [IdleTool EXCEPT !.fn = "searchBooks", !.at = "fetch", !.limit = args.maxResults]
      [] functionName = "getBookDetails" ->
             [IdleTool EXCEPT !.fn = "getBookDetails", !.at = "fetch", !.bookId = args.bookId]
      [] functionName = "addToReadingList" -> StartAdd(args.bookId, args.priority)
      [] functionName = "getReadingList" ->
             [IdleTool EXCEPT !.fn = "getReadingList", !.at = "find", !.limit = args.limit]
      [] functionName = "markAsRead" -> StartMark(args.bookId, args.rating)
      [] functionName = "getReadingStats" ->
             [IdleTool EXCEPT !.fn = "getReadingStats", !.at = "find"]

\* ToolMessage with the function's name where the call's id belongs
ToolMessage_ByName(toolCall, result) == [tool_call_id |-> toolCall.name, content |-> result]

\* lines 159-163
ToolMessage(toolCall, result) == [tool_call_id |-> toolCall.id, content |-> result]

\* the Response of the outer catch block, lines 210-216
ErrorResponse == [status |-> 500, keys |-> {"error", "details"},
                  content |-> "", toolsUsed |-> <<>>]

\* the Responses of lines 197-200 and 205-208
OkResponse(content, toolsUsed) == [status |-> 200, keys |-> {"content", "toolsUsed"},
                                   content |-> content, toolsUsed |-> toolsUsed]

\* one fetch to the LLM provider: whether tools are offered, the tool messages
\* sent after the composed messages and the assistant message, and the status of
\* the response (0 until it arrives, then 200 for an ok response, 500 for another)
LlmCall(tools, toolMsgs) == [tools |-> tools, toolMsgs |-> toolMsgs, status |-> 0]

\* lines 15-103: the body is read, the messages composed and the first fetch
\* issued; a body without messages throws into the outer catch
Receive(p) ==
    /\ pc[p] \in {"idle", "done"} /\ tool[p].fn = "none"
    /\ \E bodyOk \in BOOLEAN :
          /\ pc' = [pc EXCEPT ![p] = IF bodyOk THEN "llm1" ELSE "done"]
          /\ llmCalls' = [llmCalls EXCEPT ![p] = IF bodyOk THEN <<LlmCall(TRUE, <<>>)>> ELSE <<>>]
          /\ response' = [response EXCEPT ![p] = IF bodyOk THEN <<>> ELSE <<ErrorResponse>>]
    /\ calls' = [calls EXCEPT ![p] = <<>>]
    /\ toolResults' = [toolResults EXCEPT ![p] = <<>>]
    /\ finalData' = [finalData EXCEPT ![p] = <<>>]
    /\ UNCHANGED <<pending, read, tool, addLog>>

\* lines 105-120 and 203-208: the first response
FirstResponse(p) ==
    /\ pc[p] = "llm1"
    /\ \/ /\ llmCalls' = [llmCalls EXCEPT ![p][1].status = 500]
          /\ pc' = [pc EXCEPT ![p] = "done"]
          /\ response' = [response EXCEPT ![p] = <<ErrorResponse>>]
          /\ UNCHANGED calls
       \/ \E tool_calls \in CallLists :
             /\ llmCalls' = [llmCalls EXCEPT ![p][1].status = 200]
             /\ calls' = [calls EXCEPT ![p] = tool_calls]
             /\ IF Len(tool_calls) > 0
                THEN /\ pc' = [pc EXCEPT ![p] = "loop"]
                     /\ UNCHANGED response
                ELSE /\ pc' = [pc EXCEPT ![p] = "done"]
                     /\ response' = [response EXCEPT ![p] = <<OkResponse("text", <<>>)>>]
    /\ UNCHANGED <<pending, read, tool, addLog, toolResults, finalData>>

\* the tool call the loop of line 122 stands at
Current(p) == calls[p][Len(toolResults[p]) + 1]

\* lines 122-157: one iteration of the loop up to the await of the tool function,
\* or to the push of line 159 when no tool function is called
Dispatch(p) ==
    /\ pc[p] = "loop" /\ Len(toolResults[p]) < Len(calls[p])
    /\ LET toolCall == Current(p)
           functionName == toolCall.name
           parsed == JSONParse(toolCall.arguments)
           args == parsed.value
       IN IF parsed.thrown
          THEN /\ pc' = [pc EXCEPT ![p] = "done"]
               /\ response' = [response EXCEPT ![p] = <<ErrorResponse>>]
               /\ UNCHANGED <<tool, toolResults>>
          ELSE IF functionName \notin ToolNames
          THEN /\ toolResults' = [toolResults EXCEPT ![p] =
                      Append(@, ToolMessage(toolCall, Result("absent", ErrNoTool, <<>>)))]
               /\ UNCHANGED <<tool, pc, response>>
          ELSE IF ReadsArgs(functionName) /\ args.type = "null"
          THEN /\ toolResults' = [toolResults EXCEPT ![p] =
                      Append(@, ToolMessage(toolCall,
                                            Result("absent", ErrExec(functionName), <<>>)))]
               /\ UNCHANGED <<tool, pc, response>>
          ELSE /\ tool' = [tool EXCEPT ![p] = StartTool(functionName, args)]
               /\ pc' = [pc EXCEPT ![p] = "tool"]
               /\ UNCHANGED <<toolResults, response>>
    /\ UNCHANGED <<pending, read, addLog, calls, llmCalls, finalData>>

\* lines 128-163: the tool function returned; its result is pushed
Collect(p) ==
    /\ pc[p] = "tool" /\ tool[p].at = "done"
    /\ toolResults' = [toolResults EXCEPT ![p] = Append(@, ToolMessage(Current(p), tool[p].result))]
    /\ tool' = [tool EXCEPT ![p] = IdleTool]
    /\ pc' = [pc EXCEPT ![p] = "loop"]
    /\ UNCHANGED <<pending, read, addLog, calls, llmCalls, finalData, response>>

\* lines 169-184: the loop is over; the second fetch is issued, without tools
SecondCall(p) ==
    /\ pc[p] = "loop" /\ Len(toolResults[p]) = Len(calls[p])
    /\ llmCalls' = [llmCalls EXCEPT ![p] = Append(@, LlmCall(FALSE, toolResults[p]))]
    /\ pc' = [pc EXCEPT ![p] = "llm2"]
    /\ UNCHANGED <<pending, read, tool, addLog, calls, toolResults, finalData, response>>

RECURSIVE Names_Reversed(_)
\* Names collecting the names last call first
Names_Reversed(tcs) ==
    IF tcs = <<>> THEN <<>> ELSE Names_Reversed(Tail(tcs)) \o <<Head(tcs).name>>

\* the names of the tool calls, line 199
RECURSIVE Names(_)
Names(tcs) == IF tcs = <<>> THEN <<>> ELSE <<Head(tcs).name>> \o Names(Tail(tcs))

\* SecondResponse running the tool calls of the second response as another round
SecondResponse_Recursive(p) ==
    /\ pc[p] = "llm2"
    /\ \/ /\ llmCalls' = [llmCalls EXCEPT ![p][2].status = 500]
          /\ response' = [response EXCEPT ![p] = <<ErrorResponse>>]
          /\ pc' = [pc EXCEPT ![p] = "done"]
          /\ UNCHANGED <<finalData, calls, toolResults>>
       \/ \E tool_calls \in FinalCallLists :
             /\ llmCalls' = [llmCalls EXCEPT ![p][2].status = 200]
             /\ finalData' = [finalData EXCEPT ![p] =
                                 <<[content |-> "final text", tool_calls |-> tool_calls]>>]
             /\ IF tool_calls = <<>>
                THEN /\ response' = [response EXCEPT ![p] =
                                        <<OkResponse("final text", Names(calls[p]))>>]
                     /\ pc' = [pc EXCEPT ![p] = "done"]
                     /\ UNCHANGED <<calls, toolResults>>
                ELSE /\ calls' = [calls EXCEPT ![p] = tool_calls]
                     /\ toolResults' = [toolResults EXCEPT ![p] = <<>>]
                     /\ pc' = [pc EXCEPT ![p] = "loop"]
                     /\ UNCHANGED response
    /\ UNCHANGED <<pending, read, tool, addLog>>

\* SecondResponse answering a failed second call with what it has
SecondResponse_Fallback(p) ==
    /\ pc[p] = "llm2"
    /\ \/ /\ llmCalls' = [llmCalls EXCEPT ![p][2].status = 500]
          /\ response' = [response EXCEPT ![p] = <<OkResponse("", Names(calls[p]))>>]
          /\ UNCHANGED finalData
       \/ \E tool_calls \in FinalCallLists :
             /\ llmCalls' = [llmCalls EXCEPT ![p][2].status = 200]
             /\ finalData' = [finalData EXCEPT ![p] =
                                 <<[content |-> "final text", tool_calls |-> tool_calls]>>]
             /\ response' = [response EXCEPT ![p] = <<OkResponse("final text", Names(calls[p]))>>]
    /\ pc' = [pc EXCEPT ![p] = "done"]
    /\ UNCHANGED <<pending, read, tool, addLog, calls, toolResults>>

\* SecondResponse undoing, when the second call fails, the pending rows the
\* tools of the turn created
SecondResponse_Rollback(p) ==
    /\ pc[p] = "llm2"
    /\ \/ /\ llmCalls' = [llmCalls EXCEPT ![p][2].status = 500]
          /\ response' = [response EXCEPT ![p] = <<ErrorResponse>>]
          /\ pending' = SelectSeq(pending, LAMBDA row :
                            \A i \in 1..Len(toolResults[p]) :
                                ~(/\ calls[p][i].name = "addToReadingList"
                                  /\ toolResults[p][i].content.success = "true"
                                  /\ JSONParse(calls[p][i].arguments).value.bookId
                                        = row.googleId))
          /\ UNCHANGED finalData
       \/ \E tool_calls \in FinalCallLists :
             /\ llmCalls' = [llmCalls EXCEPT ![p][2].status = 200]
             /\ finalData' = [finalData EXCEPT ![p] =
                                 <<[content |-> "final text", tool_calls |-> tool_calls]>>]
             /\ response' = [response EXCEPT ![p] = <<OkResponse("final text", Names(calls[p]))>>]
             /\ UNCHANGED pending
    /\ pc' = [pc EXCEPT ![p] = "done"]
    /\ UNCHANGED <<read, tool, addLog, calls, toolResults>>

\* lines 186-200: the second response; the tool calls it may hold are not read
SecondResponse(p) ==
    /\ pc[p] = "llm2"
    /\ \/ /\ llmCalls' = [llmCalls EXCEPT ![p][2].status = 500]
          /\ response' = [response EXCEPT ![p] = <<ErrorResponse>>]
          /\ UNCHANGED finalData
       \/ \E tool_calls \in FinalCallLists :
             /\ llmCalls' = [llmCalls EXCEPT ![p][2].status = 200]
             /\ finalData' = [finalData EXCEPT ![p] =
                                 <<[content |-> "final text", tool_calls |-> tool_calls]>>]
             /\ response' = [response EXCEPT ![p] = <<OkResponse("final text", Names(calls[p]))>>]
    /\ pc' = [pc EXCEPT ![p] = "done"]
    /\ UNCHANGED <<pending, read, tool, addLog, calls, toolResults>>

(***************************************************************************)
(* StoreSpec: concurrent requests as callers of the two writing tools.     *)
(***************************************************************************)
CallAdd(p) ==
    /\ pc[p] = "idle" /\ tool[p].fn = "none"
    /\ \E bookId \in Ids, priority \in {Undefined, "high"} :
          tool' = [tool EXCEPT ![p] = StartAdd(bookId, priority)]
    /\ UNCHANGED <<pending, read, addLog, orch>>

CallMark(p) ==
    /\ pc[p] = "idle" /\ tool[p].fn = "none"
    /\ \E bookId \in Ids :
          tool' = [tool EXCEPT ![p] = StartMark(bookId, {})]
    /\ UNCHANGED <<pending, read, addLog, orch>>

\* the caller takes the tool's return value
Returned(p) ==
    /\ pc[p] = "idle" /\ tool[p].at = "done"
    /\ tool' = [tool EXCEPT ![p] = IdleTool]
    /\ UNCHANGED <<pending, read, addLog, orch>>

Init ==
    /\ pending = <<>>
    /\ read = <<>>
    /\ tool = [p \in Procs |-> IdleTool]
    /\ pc = [p \in Procs |-> "idle"]
    /\ calls = [p \in Procs |-> <<>>]
    /\ toolResults = [p \in Procs |-> <<>>]
    /\ llmCalls = [p \in Procs |-> <<>>]
    /\ finalData = [p \in Procs |-> <<>>]
    /\ response = [p \in Procs |-> <<>>]
    /\ addLog = [id \in Ids |-> <<>>]

StoreNext ==
    \E p \in Procs :
        \/ CallAdd(p)
        \/ CallMark(p)
        \/ AddLookup(p)
        \/ AddCreate(p)
        \/ MarkFind(p)
        \/ MarkLookup(p)
        \/ MarkCreate(p)
        \/ MarkDelete(p)
        \/ Returned(p)

StoreSpec == Init /\ [][StoreNext]_vars

(***************************************************************************)
(* SearchSpec: searchBooks called with every maxResults and every list of  *)
(* items.                                                                  *)
(***************************************************************************)
CallSearch(p) ==
    /\ pc[p] = "idle" /\ tool[p].fn = "none"
    /\ \E maxResults \in {{}} \cup {{n} : n \in -1..MaxResultsArg} :
          tool' = [tool EXCEPT ![p] = StartTool("searchBooks",
                                                [NoArgs EXCEPT !.maxResults = maxResults])]
    /\ UNCHANGED <<pending, read, addLog, orch>>

SearchNext ==
    \E p \in Reqs :
        \/ CallSearch(p)
        \/ SearchAwait(p, RawLists)
        \/ Returned(p)

SearchSpec == Init /\ [][SearchNext]_vars

Next ==
    \/ \E p \in Reqs :
          \/ Receive(p)
          \/ FirstResponse(p)
          \/ Dispatch(p)
          \/ Collect(p)
          \/ SecondCall(p)
          \/ SecondResponse(p)
    \/ \E p \in Procs :
          \/ SearchFetch(p)
          \/ DetailsFetch(p)
          \/ AddLookup(p)
          \/ AddCreate(p)
          \/ ListFind(p)
          \/ MarkFind(p)
          \/ MarkLookup(p)
          \/ MarkCreate(p)
          \/ MarkDelete(p)
          \/ StatsFind(p)

Spec == Init /\ [][Next]_vars

(***************************************************************************)
(* Properties of the chat route, checked under Spec.                       *)
(***************************************************************************)

\* C1: the tools of a turn run one at a time in the order of tool_calls, and
\* the second LLM call is issued with exactly one tool message per tool call,
\* the i-th carrying the id of the i-th tool call.
C1_ResultsBeforeSecondCall ==
    \A p \in Reqs :
        /\ Len(toolResults[p]) <= Len(calls[p])
        /\ \A i \in 1..Len(toolResults[p]) :
              toolResults[p][i].tool_call_id = calls[p][i].id
        /\ tool[p].fn # "none" =>
              /\ pc[p] = "tool"
              /\ Len(toolResults[p]) < Len(calls[p])
              /\ tool[p].fn = Current(p).name
        /\ Len(llmCalls[p]) >= 2 =>
              LET sent == llmCalls[p][2].toolMsgs
              IN /\ Len(calls[p]) >= 1
                 /\ Len(sent) = Len(calls[p])
                 /\ \A i \in 1..Len(sent) : sent[i].tool_call_id = calls[p][i].id

\* two tool calls with different ids were answered and the second call issued
C1_Witness ==
    \E p \in Reqs :
        /\ pc[p] = "llm2"
        /\ Len(calls[p]) = 2
        /\ calls[p][1].id # calls[p][2].id
        /\ Len(llmCalls[p][2].toolMsgs) = 2

\* C2: no tool call aborts the batch: a request whose first response held tool
\* calls ends only after every tool call got its result and the second LLM call
\* was issued.
C2_ToolFailureNeverAborts ==
    \A p \in Reqs :
        (pc[p] = "done" /\ Len(calls[p]) >= 1) =>
            /\ Len(toolResults[p]) = Len(calls[p])
            /\ Len(llmCalls[p]) = 2

\* C5: dispatching a tool call with an unknown name pushes the structured error
\* for it, does not throw, calls no tool function and leaves both tables alone.
C5_UnknownToolIsStructuredError ==
    [][\A p \in Reqs :
          (/\ pc[p] = "loop"
           /\ Len(toolResults[p]) < Len(calls[p])
           /\ Current(p).name \notin ToolNames) =>
              /\ toolResults'[p] = Append(toolResults[p],
                                          ToolMessage(Current(p),
                                                      Result("absent", ErrNoTool, <<>>)))
              /\ response'[p] = response[p]
              /\ pc'[p] = "loop"
              /\ tool' = tool
              /\ pending' = pending
              /\ read' = read]_vars

\* where POST stands, along Composed -> ToolsPending -> Finalized
Rank(at) == CASE at = "idle" -> 0
              [] at = "llm1" -> 1
              [] at \in {"loop", "tool"} -> 2
              [] at = "llm2" -> 3
              [] at = "done" -> 4

\* C6: a request makes at most two LLM calls, offers the tools on the first
\* only, issues the second once the tool calls are answered, never runs a tool
\* after the second call was issued, and never moves back to an earlier stage.
C6_SingleRound ==
    /\ [](\A p \in Reqs :
            /\ Len(llmCalls[p]) <= 2
            /\ Len(llmCalls[p]) >= 1 => llmCalls[p][1].tools
            /\ Len(llmCalls[p]) >= 2 => ~llmCalls[p][2].tools
            /\ Len(llmCalls[p]) >= 2 <=> (pc[p] = "llm2" \/ (pc[p] = "done" /\ Len(toolResults[p]) = Len(calls[p]) /\ calls[p] # <<>>))
            /\ pc[p] \in {"llm2", "done"} => tool[p] = IdleTool
            /\ finalData[p] # <<>> =>
                  /\ pc[p] = "done"
                  /\ Len(toolResults[p]) = Len(calls[p])
                  /\ response[p] = <<OkResponse(finalData[p][1].content, Names(calls[p]))>>)
    /\ [][\A p \in Reqs :
            /\ pc[p] \notin {"idle", "done"} => Rank(pc'[p]) >= Rank(pc[p])
            /\ pc[p] = "llm2" => (pc'[p] = "done" /\ toolResults'[p] = toolResults[p]
                                  /\ calls'[p] = calls[p])]_vars

\* the second response held a tool call, and the request ended with the results
\* of the first round only
C6_Witness ==
    \E p \in Reqs :
        /\ pc[p] = "done"
        /\ finalData[p] # <<>>
        /\ finalData[p][1].tool_calls # <<>>
        /\ Len(llmCalls[p]) = 2
        /\ Len(toolResults[p]) = Len(calls[p])

\* C7: a non-success status of an LLM call ends the request with the status 500
\* response, which holds neither content nor toolsUsed; the failed call is the
\* last one of the request; and when the first call fails no tool was run.
C7_LlmFailureIsFatal ==
    \A p \in Reqs : \A i \in 1..Len(llmCalls[p]) :
        llmCalls[p][i].status \notin {0, 200} =>
            /\ pc[p] = "done"
            /\ response[p] # <<>>
            /\ response[p][1].status = 500
            /\ response[p][1].keys \cap {"content", "toolsUsed"} = {}
            /\ i = Len(llmCalls[p])
            /\ i = 1 => (toolResults[p] = <<>> /\ calls[p] = <<>> /\ tool[p] = IdleTool)

\* the second call failed after the tools of the turn had run
C7_Witness ==
    \E p \in Reqs :
        /\ Len(llmCalls[p]) = 2
        /\ llmCalls[p][2].status = 500
        /\ Len(toolResults[p]) >= 1
        /\ response[p] = <<ErrorResponse>>

\* the bookId argument of tool call n of the turn
BookIdOf(p, n) == JSONParse(calls[p][n].arguments).value.bookId

\* C4: once markAsRead(id) has succeeded, id has no pending row and exactly
\* one read row, getReadingList does not return id, and getReadingStats counts
\* one book more than the getReadingStats call answered just before the
\* markAsRead.
C4_MarkReadMovesEntry ==
    \A p \in Reqs :
        LET n == Len(toolResults[p])
        IN (/\ pc[p] # "tool"
            /\ n >= 1
            /\ calls[p][n].name = "markAsRead"
            /\ toolResults[p][n].content.success = "true") =>
               LET id == BookIdOf(p, n)
                   listed == getReadingList(pending, {}).data
               IN /\ ~HasRow(pending, id)
                  /\ Cardinality(RowsOf(read, id)) = 1
                  /\ \A i \in 1..Len(listed) : listed[i].googleId # id
                  /\ (/\ n >= 2
                      /\ calls[p][n - 1].name = "getReadingStats"
                      /\ toolResults[p][n - 1].content.error = "") =>
                         getReadingStats(read).data[1].totalBooksRead
                             = toolResults[p][n - 1].content.data[1].totalBooksRead + 1

\* a turn added an id and then marked it read, from the pending row
C4_Witness ==
    \E p \in Reqs :
        /\ pc[p] = "loop"
        /\ Len(toolResults[p]) = 2
        /\ calls[p][1].name = "addToReadingList"
        /\ toolResults[p][1].content.success = "true"
        /\ calls[p][2].name = "markAsRead"
        /\ BookIdOf(p, 2) = BookIdOf(p, 1)
        /\ toolResults[p][2].content.success = "true"
        /\ toolResults[p][2].content.data[1].pageCount = 0

(***************************************************************************)
(* Properties of the reading list under concurrent requests, checked under *)
(* StoreSpec.                                                              *)
(***************************************************************************)

\* the step is one of p's tool function
StepOf(p) == tool'[p] # tool[p]

\* C3: of the addToReadingList calls of an id that storage answered since the
\* id last had no pending row, the first succeeds and every later one gets the
\* duplicate error, whether the calls follow each other or interleave; and the
\* pending table then holds exactly one row of the id.
C3_AddPendingIdempotentSafe ==
    \A id \in Ids :
        /\ \A i \in 1..Len(addLog[id]) :
              addLog[id][i] = IF i = 1 THEN "success" ELSE "duplicate"
        /\ Len(addLog[id]) >= 1 => Cardinality(RowsOf(pending, id)) = 1

\* two callers added the same id at the same time: one success, one duplicate
C3_Witness ==
    \E id \in Ids :
        /\ addLog[id] = <<"success", "duplicate">>
        /\ \A p \in Procs :
              /\ tool[p].fn = "addToReadingList"
              /\ tool[p].bookId = id
              /\ tool[p].at = "done"
        /\ {tool[p].result.error : p \in Procs} = {"", ErrAddDuplicate}
        /\ {tool[p].result.success : p \in Procs} = {"true", "false"}

\* C8: each table holds at most one row per id in every state of every
\* interleaving; a create for an id that already has a row in the table changes
\* nothing and does not succeed, and a uniqueness violation reported by storage
\* is answered with the duplicate error of the tool.
C8_UniquePerId ==
    /\ [](\A id \in Ids :
            /\ Cardinality(RowsOf(pending, id)) <= 1
            /\ Cardinality(RowsOf(read, id)) <= 1)
    /\ [][\A p \in Procs :
            /\ (/\ StepOf(p)
                /\ tool[p].fn = "addToReadingList"
                /\ tool[p].at = "create"
                /\ HasRow(pending, tool[p].bookId)) =>
                   /\ pending' = pending
                   /\ tool'[p].result.success = "false"
                   /\ tool'[p].code # StorageDown =>
                         tool'[p].result = Result("false", ErrAddDuplicate, <<>>)
            /\ (/\ StepOf(p)
                /\ tool[p].fn = "markAsRead"
                /\ tool[p].at = "create"
                /\ HasRow(read, tool[p].bookId)) =>
                   /\ read' = read
                   /\ tool'[p].result.success = "false"
                   /\ tool'[p].code # StorageDown =>
                         tool'[p].result = Result("false", ErrMarkDuplicate, <<>>)]_vars

\* both tables hold a row, and a create of an id that has a row was answered
\* with the duplicate error while another caller was still in its tool function
C8_Witness ==
    /\ pending # <<>>
    /\ read # <<>>
    /\ \E p, q \in Procs :
          /\ p # q
          /\ tool[p].at = "done"
          /\ tool[p].code = "P2002"
          /\ tool[q].fn # "none"
          /\ tool[q].at # "done"

\* C9: a markAsRead that found no pending row and whose getBookDetails failed
\* returns success false with the not-available error; none of its steps
\* changes a table, and it makes no storage call after the findFirst.
C9_MarkReadUnavailable ==
    [][\A p \in Procs :
          (/\ StepOf(p)
           /\ tool[p].fn = "markAsRead"
           /\ tool[p].at \in {"find", "lookup"}) =>
              /\ pending' = pending
              /\ read' = read
              /\ (tool[p].at = "lookup" /\ tool'[p].info.error # "") =>
                    /\ ~tool[p].fromList
                    /\ tool'[p].at = "done"
                    /\ tool'[p].result = Result("false", ErrMarkUnavailable, <<>>)]_vars

\* a markAsRead ended with the not-available error
C9_Witness ==
    \E p \in Procs :
        /\ tool[p].fn = "markAsRead"
        /\ tool[p].at = "done"
        /\ tool[p].info.error # ""
        /\ ~HasRow(read, tool[p].bookId)
        /\ tool[p].result = Result("false", ErrMarkUnavailable, <<>>)

\* C10: addToReadingList calls getBookDetails before any storage call; when
\* the details hold an error it returns the not-available error at once, having
\* made no storage call, so that only a call whose details were resolved ever
\* changes a table.
C10_AddPendingLookupFirst ==
    [][\A p \in Procs :
          /\ (tool[p].fn # "addToReadingList" /\ tool'[p].fn = "addToReadingList") =>
                (tool'[p].at = "lookup" /\ tool'[p].code = "")
          /\ (StepOf(p) /\ tool[p].fn = "addToReadingList" /\ tool[p].at = "lookup") =>
                /\ pending' = pending
                /\ read' = read
                /\ tool'[p].code = ""
                /\ IF tool'[p].info.error # ""
                   THEN /\ tool'[p].at = "done"
                        /\ tool'[p].result = Result("absent", ErrAddUnavailable, <<>>)
                   ELSE tool'[p].at = "create"
          /\ (StepOf(p) /\ tool[p].fn = "addToReadingList" /\ tool'[p].code # "") =>
                (tool[p].at = "create" /\ tool[p].info.error = "")]_vars

\* an addToReadingList ended with the not-available error
C10_Witness ==
    \E p \in Procs :
        /\ tool[p].fn = "addToReadingList"
        /\ tool[p].at = "done"
        /\ tool[p].info.error # ""
        /\ tool[p].code = ""
        /\ tool[p].result = Result("absent", ErrAddUnavailable, <<>>)

\* C11: markAsRead calls getBookDetails exactly when its findFirst returned no
\* pending row of the id. When a row was returned, the call goes straight to
\* the create with the metadata of that row (page count 0), the read row it
\* creates carries that metadata, and the call never ends with the
\* not-available error, whatever the book API would have answered.
C11_MarkReadLookupIffNotPending ==
    [][\A p \in Procs :
          /\ (/\ StepOf(p)
              /\ tool[p].fn = "markAsRead"
              /\ tool[p].at = "find"
              /\ tool'[p].code # StorageDown) =>
                 IF HasRow(pending, tool[p].bookId)
                 THEN /\ tool'[p].at = "create"
                      /\ tool'[p].fromList
                      /\ \E i \in RowsOf(pending, tool[p].bookId) :
                            tool'[p].info = [error |-> "",
                                             title |-> pending[i].title,
                                             pageCount |-> 0]
                 ELSE /\ tool'[p].at = "lookup"
                      /\ ~tool'[p].fromList
          /\ (StepOf(p) /\ tool[p].fn = "markAsRead" /\ tool[p].at = "lookup") =>
                 ~tool[p].fromList
          /\ (/\ StepOf(p)
              /\ tool[p].fn = "markAsRead"
              /\ tool'[p].fn = "markAsRead"
              /\ tool[p].fromList) =>
                 /\ tool'[p].info = tool[p].info
                 /\ tool'[p].result.error # ErrMarkUnavailable
                 /\ read' # read =>
                       read' = Append(read, [googleId |-> tool[p].bookId,
                                             title |-> tool[p].info.title,
                                             pageCount |-> 0,
                                             rating |-> ReadData(tool[p]).rating])]_vars

\* a markAsRead that found the book in the reading list returned success with
\* the read row built from the pending row
C11_Witness ==
    \E p \in Procs :
        /\ tool[p].fn = "markAsRead"
        /\ tool[p].at = "done"
        /\ tool[p].fromList
        /\ tool[p].result.success = "true"
        /\ \E i \in 1..Len(read) :
              /\ read[i].googleId = tool[p].bookId
              /\ read[i].pageCount = 0

\* the books of a search that has returned, the items its response held and
\* the maxResults it was called with
SearchesDone == {p \in Procs : tool[p].fn = "searchBooks" /\ tool[p].at = "done"}

MaxResultsOf(p) == IF tool[p].limit = {} THEN DefaultMaxResults
                   ELSE CHOOSE n \in tool[p].limit : TRUE

RECURSIVE InOrderOf(_, _)
\* books are some of the items, in the order of the items
InOrderOf(books, items) ==
    IF books = <<>> THEN TRUE
    ELSE IF items = <<>> THEN FALSE
    ELSE IF /\ items[1].hasId
            /\ books[1] = [id |-> items[1].id, title |-> items[1].title]
         THEN InOrderOf(Tail(books), Tail(items))
         ELSE InOrderOf(books, Tail(items))

\* what the claim says of the books besides their number
FilteredInOrder(p) ==
    LET books == tool[p].result.data
    IN /\ \A i \in 1..Len(books) :
             /\ ~Includes(books[i].id, <<"A", "A", "A", "M", "A", "A", "J">>)
             /\ ~Includes(books[i].id, <<"A", "A", "A", "Q", "B", "A", "J">>)
             /\ books[i].id # <<>>
             /\ books[i].title # ""
       /\ InOrderOf(books, tool[p].items)

\* C12 (as stated): for every maxResults and every list of items, searchBooks
\* returns no book with a problematic id, none without title or id, at most
\* maxResults books, and the books in the order of the items.
C12_SearchFilter_Original ==
    \A p \in SearchesDone :
        /\ FilteredInOrder(p)
        /\ Len(tool[p].result.data) <= MaxResultsOf(p)

\* C12: for every maxResults that is not negative and every list of items,
\* searchBooks returns no book with a problematic id, none without title or
\* id, at most maxResults books, and the books in the order of the items; for
\* a negative maxResults the first three of these still hold.
C12_SearchFilter ==
    \A p \in SearchesDone :
        /\ FilteredInOrder(p)
        /\ MaxResultsOf(p) >= 0 => Len(tool[p].result.data) <= MaxResultsOf(p)

\* a search returned exactly maxResults books from a response that held more
\* valid items than that and an item with a problematic id
C12_Witness ==
    \E p \in SearchesDone :
        /\ MaxResultsOf(p) > 0
        /\ Len(tool[p].result.data) = MaxResultsOf(p)
        /\ Len(tool[p].items) > MaxResultsOf(p)
        /\ \E i \in 1..Len(tool[p].items) :
              Includes(tool[p].items[i].id, <<"A", "A", "A", "Q", "B", "A", "J">>)

(***************************************************************************)
(* Properties of argument validation, checked under Spec.                  *)
(***************************************************************************)
\* the argument schemas of toolDefinitions, lines 10-138
ViolatesSchema(functionName, args) ==
    \/ functionName = "searchBooks" /\ args.query = Undefined
    \/ functionName \in {"getBookDetails", "addToReadingList", "markAsRead"}
          /\ args.bookId = Undefined
    \/ functionName = "addToReadingList"
          /\ args.priority \notin {Undefined, "high", "medium", "low"}
    \/ functionName = "markAsRead" /\ ~(args.rating \subseteq 1..5)
    \/ functionName = "getReadingStats"
          /\ args.period \notin {Undefined, "all-time", "year", "month"}

\* C13: a tool call whose arguments violate the declared schema gets a
\* ToolResult that holds an error, and every stored pending row has a priority
\* of high, medium or low and every stored read row a rating that is absent
\* or in 1..5.
C13_ArgumentsValidated ==
    /\ \A p \in Reqs : \A i \in 1..Len(toolResults[p]) :
          (/\ calls[p][i].name \in ToolNames
           /\ ~JSONParse(calls[p][i].arguments).thrown
           /\ ViolatesSchema(calls[p][i].name, JSONParse(calls[p][i].arguments).value)) =>
              toolResults[p][i].content.error # ""
    /\ \A i \in 1..Len(pending) : pending[i].priority \in {"high", "medium", "low"}
    /\ \A i \in 1..Len(read) : read[i].rating \subseteq 1..5

(***************************************************************************)
(* Properties of the response of the chat route, checked under Spec.       *)
(***************************************************************************)
\* C14: the status 200 response of a request whose first LLM response held
\* tool calls carries, as toolsUsed, the function names of those tool calls in
\* their order, one name per call, with the text of the second LLM response;
\* the response of a request whose first LLM response held no tool call
\* carries toolsUsed = [] with the text of that first response, and no second
\* LLM call was made.
C14_ToolsUsed ==
    \A p \in Reqs :
        (pc[p] = "done" /\ response[p] # <<>> /\ response[p][1].status = 200) =>
            LET r == response[p][1]
            IN IF calls[p] = <<>>
               THEN /\ r.toolsUsed = <<>>
                    /\ r.content = "text"
                    /\ Len(llmCalls[p]) = 1
               ELSE /\ Len(r.toolsUsed) = Len(calls[p])
                    /\ \A i \in 1..Len(calls[p]) : r.toolsUsed[i] = calls[p][i].name
                    /\ Len(toolResults[p]) = Len(calls[p])
                    /\ finalData[p] # <<>>
                    /\ r.content = finalData[p][1].content

\* a request that ran two tool calls of different names got its response
C14_Witness ==
    \E p \in Reqs :
        /\ pc[p] = "done"
        /\ response[p] # <<>>
        /\ response[p][1].status = 200
        /\ Len(calls[p]) = 2
        /\ calls[p][1].name # calls[p][2].name
        /\ response[p][1].toolsUsed = <<calls[p][1].name, calls[p][2].name>>

(***************************************************************************)
(* Properties of the two tables together, checked under StoreSpec.         *)
(***************************************************************************)
InBoth(id) == HasRow(pending, id) /\ HasRow(read, id)

\* no call of a tool is under way
Quiescent == \A p \in Procs : tool[p].fn = "none"

\* C15 (as stated): in every quiescent state no id has both a pending and a
\* read row.
C15_ExclusiveTables_Original == Quiescent => \A id \in Ids : ~InBoth(id)

\* C15: an id comes to have both a pending and a read row by two steps only:
\* the create of an addToReadingList of an id that has a read row already, which
\* succeeds because addToReadingList never looks at the read table, and the
\* create of a markAsRead of an id that is pending, whose deleteMany, unless
\* it fails, then leaves no pending row of the id.
C15_BothTablesOnlyByAddAfterRead ==
    [][/\ \A id \in Ids :
             (~InBoth(id) /\ InBoth(id)') =>
                 \E p \in Procs :
                     /\ StepOf(p)
                     /\ tool[p].bookId = id
                     /\ tool[p].at = "create"
                     /\ \/ /\ tool[p].fn = "addToReadingList"
                           /\ HasRow(read, id)
                           /\ tool'[p].result.success = "true"
                        \/ /\ tool[p].fn = "markAsRead"
                           /\ HasRow(pending, id)
                           /\ tool'[p].at = "delete"
       /\ \A p \in Procs :
             /\ (/\ StepOf(p)
                 /\ tool[p].fn = "addToReadingList"
                 /\ tool[p].at = "create"
                 /\ tool'[p].code = "ok") =>
                    (HasRow(read, tool[p].bookId) => InBoth(tool[p].bookId)')
             /\ (/\ StepOf(p)
                 /\ tool[p].fn = "markAsRead"
                 /\ tool[p].at = "delete"
                 /\ tool'[p].code = "ok") =>
                    /\ ~HasRow(pending', tool[p].bookId)
                    /\ tool'[p].result.success = "true"]_vars

\* with no call under way, an id has both a pending and a read row
C15_Witness == Quiescent /\ \E id \in Ids : InBoth(id)

\* C16: markAsRead deletes from the pending table only after its create of the
\* read row has succeeded. At every state of a markAsRead that found its id
\* pending, from the findFirst on, the id has a row in at least one table; the
\* create step of markAsRead never changes the pending table, whether it
\* succeeds, meets the uniqueness violation or another storage error; and the
\* pending table changes in a markAsRead at its deleteMany only, when the read
\* table holds the id.
C16_DeleteOnlyAfterCreate ==
    /\ [](\A p \in Procs :
             (tool[p].fn = "markAsRead" /\ tool[p].fromList) =>
                 (HasRow(pending, tool[p].bookId) \/ HasRow(read, tool[p].bookId)))
    /\ [][\A p \in Procs :
             (StepOf(p) /\ tool[p].fn = "markAsRead") =>
                 /\ tool[p].at = "create" => pending' = pending
                 /\ (tool[p].at = "create" /\ tool'[p].code # "ok") =>
                       /\ tool'[p].at = "done"
                       /\ tool'[p].result.success = "false"
                       /\ read' = read
                 /\ pending' # pending =>
                       /\ tool[p].at = "delete"
                       /\ HasRow(read, tool[p].bookId)]_vars

\* a markAsRead that found its id pending failed at the create of the read row
\* with the uniqueness violation, and the pending row is still there
C16_Witness ==
    \E p \in Procs :
        /\ tool[p].fn = "markAsRead"
        /\ tool[p].at = "done"
        /\ tool[p].fromList
        /\ tool[p].code = "P2002"
        /\ tool[p].result = Result("false", ErrMarkDuplicate, <<>>)
        /\ HasRow(pending, tool[p].bookId)

(***************************************************************************)
(* Properties of a failed second LLM call, checked under Spec.             *)
(***************************************************************************)
\* tool call n of the turn was fn and returned success
Succeeded(p, n, fn) ==
    /\ calls[p][n].name = fn
    /\ toolResults[p][n].content.success = "true"

\* the request ended because the second LLM call failed
SecondCallFailed(p) ==
    /\ pc[p] = "done"
    /\ Len(llmCalls[p]) = 2
    /\ llmCalls[p][2].status = 500

\* C17: nothing is rolled back when the second LLM call fails. The step that
\* receives the second response, and the next request's start, leave both
\* tables as they are; a request ended by a failed second call carries the
\* error response while the row of every addToReadingList that succeeded in
\* the turn is still pending (unless a later markAsRead of the turn moved it)
\* and the row of every markAsRead that succeeded is still read, so that the
\* same create, sent again, meets the uniqueness violation.
C17_NoRollback ==
    /\ [][\A p \in Reqs :
             (pc[p] \in {"llm2", "done"}) => (pending' = pending /\ read' = read)]_vars
    /\ [](\A p \in Reqs :
             SecondCallFailed(p) =>
                 /\ response[p] = <<ErrorResponse>>
                 /\ Len(toolResults[p]) = Len(calls[p])
                 /\ \A i \in 1..Len(calls[p]) :
                       /\ (/\ Succeeded(p, i, "addToReadingList")
                           /\ \A j \in (i + 1)..Len(calls[p]) :
                                 ~(/\ Succeeded(p, j, "markAsRead")
                                   /\ BookIdOf(p, j) = BookIdOf(p, i))) =>
                              /\ HasRow(pending, BookIdOf(p, i))
                              /\ PrismaCreate(pending,
                                     toolResults[p][i].content.data[1]).code = "P2002"
                       /\ Succeeded(p, i, "markAsRead") =>
                              /\ HasRow(read, BookIdOf(p, i))
                              /\ PrismaCreate(read,
                                     toolResults[p][i].content.data[1]).code = "P2002")

\* a request whose addToReadingList succeeded ended with the error response
\* because its second LLM call failed, and the row is there
C17_Witness ==
    \E p \in Reqs :
        /\ SecondCallFailed(p)
        /\ response[p] = <<ErrorResponse>>
        /\ \E i \in 1..Len(calls[p]) :
              /\ Succeeded(p, i, "addToReadingList")
              /\ HasRow(pending, BookIdOf(p, i))

====
